---- MODULE Spec2Model ----
(***************************************************************************)
(* A model of parableGPT.py: the class ParableGPT with its tradition       *)
(* registry (TRADITION_CONFIG), retrieve(), generate() and the interactive *)
(* loop run().  Python strings are TLA+ strings, so formatting, strip(),   *)
(* lower() and int() are computed character by character.                  *)
(***************************************************************************)
EXTENDS Integers, Sequences, FiniteSets, TLC

VARIABLES
    TRADITION_CONFIG,   \* self.TRADITION_CONFIG: an ordered dict, as a sequence of entries
    collections,        \* the chroma database behind self.client: collection name -> passages
    pc,                 \* per invocation: the statement the invocation is at
    op,                 \* per invocation: "generate" or "retrieve" (or "none")
    args,               \* per invocation: the arguments of the call
    calls,              \* per invocation: the collaborator calls made so far, in order
    theme_embeddings,   \* local of retrieve
    col,                \* local of retrieve: the collection handle
    verses,             \* local of retrieve / generate
    metadatas,          \* local of retrieve / generate
    sources,            \* local of generate
    system,             \* local of generate: the system prompt
    user,               \* local of generate: the user prompt
    resp,               \* local of generate: the backend's response
    result,             \* per invocation: the value returned to the caller
    error,              \* per invocation: the exception that left the invocation
    runPc,              \* run(): the statement the loop is at
    tradition_index,    \* run(): local tradition_index
    lastPrint           \* run(): the last text run() printed

procVars == <<pc, op, args, calls, theme_embeddings, col, verses, metadatas,
              sources, system, user, resp, result, error>>
runVars == <<runPc, tradition_index, lastPrint>>
vars == <<TRADITION_CONFIG, collections, pc, op, args, calls, theme_embeddings, col,
          verses, metadatas, sources, system, user, resp, result, error,
          runPc, tradition_index, lastPrint>>

(***************************** bounds **************************************)
NumProcs == 2       \* invocations that may be in flight at once
MaxColl == 7        \* largest number of passages in a collection
MaxK == 8           \* largest k a caller passes to retrieve
MaxInputLen == 2    \* longest line typed at the tradition prompt

Procs == 1..NumProcs

(************************ Python values and strings ************************)
PyNone == [t |-> "None"]
PyInt(n) == [t |-> "int", v |-> n]
PyStr(s) == [t |-> "str", v |-> s]

\* x != '' as Python evaluates it: values of different types are unequal
NotEmptyStr(x) == ~(x.t = "str" /\ x.v = "")

\* str(x), which is what an f-string replacement field renders
FormatValue(x) ==
    CASE x.t = "None" -> "None"
      [] x.t = "int" -> ToString(x.v)
      [] x.t = "str" -> x.v

\* the value itself rendered, with no "or": None renders as the word None
OrEmptyUnguarded(x) == FormatValue(x)

\* (x or ""): x when truthy, "" otherwise (None and the empty string are falsy)
OrEmpty(x) == IF x.t = "str" /\ x.v # "" THEN x.v ELSE ""

Whitespace == {" ", "\t", "\n", "\r"}
CharAt(s, i) == SubSeq(s, i, i)

RECURSIVE LStrip(_)
LStrip(s) == IF Len(s) > 0 /\ CharAt(s, 1) \in Whitespace THEN LStrip(Tail(s)) ELSE s
RECURSIVE RStrip(_)
RStrip(s) ==
    IF Len(s) > 0 /\ CharAt(s, Len(s)) \in Whitespace
    THEN RStrip(SubSeq(s, 1, Len(s) - 1)) ELSE s
\* str.strip()
Strip(s) == RStrip(LStrip(s))

UpperChars == "ABCDEFGHIJKLMNOPQRSTUVWXYZ"
LowerChars == "abcdefghijklmnopqrstuvwxyz"
LowerChar(c) ==
    IF \E i \in 1..Len(UpperChars) : CharAt(UpperChars, i) = c
    THEN CharAt(LowerChars, CHOOSE i \in 1..Len(UpperChars) : CharAt(UpperChars, i) = c)
    ELSE c
RECURSIVE Lower(_)
\* str.lower()
Lower(s) == IF Len(s) = 0 THEN "" ELSE LowerChar(CharAt(s, 1)) \o Lower(Tail(s))

Digits == "0123456789"
IsDigit(c) == \E i \in 1..Len(Digits) : CharAt(Digits, i) = c
DigitVal(c) == (CHOOSE i \in 1..Len(Digits) : CharAt(Digits, i) = c) - 1
RECURSIVE DigitsVal(_, _)
DigitsVal(s, acc) ==
    IF Len(s) = 0 THEN acc ELSE DigitsVal(Tail(s), 10 * acc + DigitVal(CharAt(s, 1)))
AllDigits(s) == Len(s) > 0 /\ \A i \in 1..Len(s) : IsDigit(CharAt(s, i))
\* int(s) on a string: surrounding whitespace, an optional sign, decimal digits;
\* anything else raises ValueError
ParseInt(s) ==
    LET b == Strip(s)
        signed == Len(b) > 0 /\ CharAt(b, 1) \in {"+", "-"}
        d == IF signed THEN Tail(b) ELSE b
    IN  IF AllDigits(d)
        THEN [ok |-> TRUE,
              val |-> IF signed /\ CharAt(b, 1) = "-" THEN 0 - DigitsVal(d, 0)
                      ELSE DigitsVal(d, 0)]
        ELSE [ok |-> FALSE, val |-> 0]

Contains(s, sub) ==
    \E i \in 1..(Len(s) - Len(sub) + 1) : SubSeq(s, i, i + Len(sub) - 1) = sub
StartsWith(s, pre) == Len(s) >= Len(pre) /\ SubSeq(s, 1, Len(pre)) = pre

RECURSIVE Join(_, _)
\* sep.join(xs)
Join(sep, xs) ==
    IF Len(xs) = 0 THEN ""
    ELSE IF Len(xs) = 1 THEN xs[1]
    ELSE xs[1] \o sep \o Join(sep, Tail(xs))

\* xs[i] on a Python list: from 0, a negative index counts from the end
ListIndex(xs, i) == IF i >= 0 THEN xs[i + 1] ELSE xs[Len(xs) + i + 1]

Min(a, b) == IF a <= b THEN a ELSE b
Abs(a) == IF a < 0 THEN 0 - a ELSE a
IsPrefix(s, t) == Len(s) <= Len(t) /\ s = SubSeq(t, 1, Len(s))

(*************************** the registry **********************************)
\* self.TRADITION_CONFIG as __init__ builds it; ref_formatter names the lambda
InitialConfig ==
    << [name |-> "Christianity", collection |-> "bible",
        style |-> "Use a reverent, Biblical tone. "
                  \o "Prefer simple, concrete imagery. "
                  \o "Do not imitate any specific modern author.",
        source_label |-> "Bible passages", ref_formatter |-> "Christianity"],
       [name |-> "Buddhism", collection |-> "dhammapada",
        style |-> "Use a calm, concise, contemplative tone similar to the provided sources. "
                  \o "Avoid sermonizing; let the lesson emerge naturally.",
        source_label |-> "Dhammapada passages", ref_formatter |-> "Buddhism"],
       [name |-> "Islam", collection |-> "quran",
        style |-> "Use a poetic, rhythmic tone similar to the Quranic style. "
                  \o "Incorporate vivid imagery and metaphors.",
        source_label |-> "Quranic passages", ref_formatter |-> "Islam"],
       [name |-> "Taoism", collection |-> "tao_te_ching",
        style |-> "Use a simple, paradoxical, and poetic tone similar to the Tao Te Ching. "
                  \o "Emphasize naturalness and spontaneity.",
        source_label |-> "Tao Te Ching passages", ref_formatter |-> "Taoism"] >>

\* list(d.keys())
Keys(d) == [i \in 1..Len(d) |-> d[i].name]
HasKey(d, k) == \E i \in 1..Len(d) : d[i].name = k
\* d[k], for a key that is present
Lookup(d, k) == d[CHOOSE i \in 1..Len(d) : d[i].name = k]

\* the keys a formatter lambda subscripts, in the order the f-string evaluates them
FormatterKeys(f) ==
    CASE f = "Christianity" -> <<"book", "chapter", "start_verse", "end_verse">>
      [] f = "Buddhism" -> <<"chapter", "start_verse", "end_verse">>
      [] f = "Islam" -> <<"surah", "start_verse", "end_verse">>
      [] f = "Taoism" -> <<"chapter">>

\* a metadata value rendered by an f-string: numbers in decimal, strings as they are
Fmt(m, key) == IF key = "book" THEN m[key] ELSE ToString(m[key])

FormatterText(f, m) ==
    CASE f = "Christianity" ->
            Fmt(m, "book") \o " " \o Fmt(m, "chapter") \o ":"
            \o Fmt(m, "start_verse") \o "-" \o Fmt(m, "end_verse")
      [] f = "Buddhism" ->
            "Dhammapada " \o Fmt(m, "chapter") \o " vv."
            \o Fmt(m, "start_verse") \o "-" \o Fmt(m, "end_verse")
      [] f = "Islam" ->
            "Surah " \o Fmt(m, "surah") \o " vv."
            \o Fmt(m, "start_verse") \o "-" \o Fmt(m, "end_verse")
      [] f = "Taoism" -> "Chapter " \o Fmt(m, "chapter")

\* a formatter that reads with m.get(key, 0) and so cites whatever it is given
RefFormatterDefaulting(f, m) ==
    LET ks == FormatterKeys(f)
        filled == [key \in {ks[i] : i \in 1..Len(ks)} |->
                     IF key \in DOMAIN m THEN m[key] ELSE IF key = "book" THEN "?" ELSE 0]
    IN  [ok |-> TRUE, ref |-> FormatterText(f, filled)]

\* cfg["ref_formatter"](m): the citation, or the KeyError of the first absent key
RefFormatter(f, m) ==
    LET ks == FormatterKeys(f)
        absent == {i \in 1..Len(ks) : ks[i] \notin DOMAIN m}
    IN  IF absent = {}
        THEN [ok |-> TRUE, ref |-> FormatterText(f, m)]
        ELSE [ok |-> FALSE,
              key |-> ks[CHOOSE i \in absent : \A j \in absent : i <= j]]

(************************* the collaborators *******************************)
EmbedRange == 7     \* embeddings are the integers below this

\* SentenceTransformer.encode([topic], normalize_embeddings=True).tolist():
\* one vector per input text, the same vector for the same text
EncodeVec(topic) == (Len(topic) * 2) % EmbedRange
Encode(texts) == [i \in 1..Len(texts) |-> EncodeVec(texts[i])]

Books == <<"John", "Luke", "Matthew">>
CollectionNames == {"bible", "dhammapada", "quran", "tao_te_ching"}
MetaKeys == {"book", "chapter", "surah", "start_verse", "end_verse"}
BadPos == 2         \* the stored passage a corrupt corpus has a key missing from

FullMeta(c, i) ==
    CASE c = "bible" ->
            [book |-> Books[((i - 1) % Len(Books)) + 1], chapter |-> i + 2,
             start_verse |-> i + 15, end_verse |-> i + 15 + ((i - 1) % 2)]
      [] c = "dhammapada" ->
            [chapter |-> i, start_verse |-> 2 * i, end_verse |-> 2 * i + 1]
      [] c = "quran" ->
            [surah |-> i + 1, start_verse |-> i, end_verse |-> i + 2]
      [] c = "tao_te_ching" -> [chapter |-> 10 * i]

\* the i-th stored passage of collection c; drop names a key its metadata lacks
Passage(c, i, drop) ==
    LET full == FullMeta(c, i)
        keep == IF i = BadPos THEN DOMAIN full \ {drop} ELSE DOMAIN full
    IN  [text |-> c \o " passage " \o ToString(i),
         meta |-> [key \in keep |-> full[key]],
         vec |-> (i * 3) % EmbedRange]

\* a database: every collection but the missing ones, n passages each
Corpus(n, missing, drop) ==
    [c \in CollectionNames \ missing |-> [i \in 1..n |-> Passage(c, i, drop)]]

Corpora ==
    {Corpus(n, {}, drop) : n \in 0..MaxColl, drop \in MetaKeys \cup {"none"}}
    \cup {Corpus(n, {"quran"}, "none") : n \in 0..MaxColl}

\* position i is ranked before position j: nearer to the query, ties by storage order
Nearer(ps, q, i, j) ==
    \/ Abs(ps[i].vec - q) < Abs(ps[j].vec - q)
    \/ Abs(ps[i].vec - q) = Abs(ps[j].vec - q) /\ i < j

\* the rank (1 = nearest) of stored position i
Rank(ps, q, i) == 1 + Cardinality({j \in 1..Len(ps) : Nearer(ps, q, j, i)})

\* the stored position that has rank r
AtRank(ps, q, r) == CHOOSE i \in 1..Len(ps) : Rank(ps, q, i) = r

\* Collection.query(query_embeddings, n_results, include): per query embedding, the
\* n_results nearest passages, nearest first; fewer when the collection is smaller
IndexQuery(ps, query_embeddings, n_results) ==
    LET hits(q) == [r \in 1..Min(n_results, Len(ps)) |-> ps[AtRank(ps, q, r)]]
    IN  [documents |-> [e \in 1..Len(query_embeddings) |->
                          [r \in 1..Len(hits(query_embeddings[e])) |->
                              hits(query_embeddings[e])[r].text]],
         metadatas |-> [e \in 1..Len(query_embeddings) |->
                          [r \in 1..Len(hits(query_embeddings[e])) |->
                              hits(query_embeddings[e])[r].meta]],
         distances |-> [e \in 1..Len(query_embeddings) |->
                          [r \in 1..Len(hits(query_embeddings[e])) |->
                              Abs(hits(query_embeddings[e])[r].vec - query_embeddings[e])]]]

\* what the generation backend may answer: chat() checks no format
BackendTexts ==
    {"Title: The Patient Farmer\nA farmer waited for rain.\nMoral: Patience bears fruit.",
     "I cannot write that."}
ChatResponse(text) == [message |-> [role |-> "assistant", content |-> text]]

(***************************** prompts *************************************)
\* generate(), the system prompt
SystemPrompt(tradition, cfg, length) ==
    "You are ParableGPT, generating a parable in the style of " \o tradition \o ". "
    \o cfg.style \o " "
    \o "Write an original parable inspired by the provided sources. "
    \o "Do not quote long passages verbatim; paraphrase ideas instead. "
    \o (IF NotEmptyStr(length)
        THEN "Target length: about " \o FormatValue(length) \o " words (±15%). "
        ELSE "")
    \o "Begin with EXACTLY: 'Title: [insert_parable_title_here]'. "
    \o "End with EXACTLY: 'Moral: [insert_moral_here]'. Be concise."

\* generate(), the user prompt
UserPrompt(topic, info, cfg, sources_text) ==
    "Topic: " \o topic \o "\n\n"
    \o "User constraints (follow these carefully):\n"
    \o Strip(OrEmpty(info)) \o "\n\n"
    \o "Relevant " \o cfg.source_label \o " "
    \o "(Imitate this tone and writing style as exactly as possible)"
    \o "\n\n" \o sources_text \o "\n\n"
    \o "Now write the parable."

(*************************** invocations ***********************************)
DefaultK == 6           \* retrieve's default k
DefaultLength == 150    \* generate's default length

NoArgs == [tradition |-> "", topic |-> "", k |-> 0, length |-> PyNone, info |-> PyNone]
NoError == [type |-> "none", detail |-> ""]
NoResponse == [message |-> [role |-> "", content |-> ""]]
NoResult == <<>>

Returned(p) == pc[p] \in {"idle", "done", "failed"}

\* a fresh frame for invocation p
Enter(p, name, a) ==
    /\ Returned(p)
    /\ pc' = [pc EXCEPT ![p] = "encode"]
    /\ op' = [op EXCEPT ![p] = name]
    /\ args' = [args EXCEPT ![p] = a]
    /\ calls' = [calls EXCEPT ![p] = <<>>]
    /\ theme_embeddings' = [theme_embeddings EXCEPT ![p] = <<>>]
    /\ col' = [col EXCEPT ![p] = ""]
    /\ verses' = [verses EXCEPT ![p] = <<>>]
    /\ metadatas' = [metadatas EXCEPT ![p] = <<>>]
    /\ sources' = [sources EXCEPT ![p] = <<>>]
    /\ system' = [system EXCEPT ![p] = ""]
    /\ user' = [user EXCEPT ![p] = ""]
    /\ resp' = [resp EXCEPT ![p] = NoResponse]
    /\ result' = [result EXCEPT ![p] = NoResult]
    /\ error' = [error EXCEPT ![p] = NoError]

\* a caller invokes generate(tradition, topic, length, info); generate's first
\* statement calls retrieve(tradition, topic), so k is retrieve's default
CallGenerate(p, tradition, topic, length, info) ==
    /\ Enter(p, "generate",
             [tradition |-> tradition, topic |-> topic, k |-> DefaultK,
              length |-> length, info |-> info])
    /\ UNCHANGED <<TRADITION_CONFIG, collections>>

\* a caller invokes retrieve(tradition, topic, k)
CallRetrieve(p, tradition, topic, k) ==
    /\ Enter(p, "retrieve",
             [tradition |-> tradition, topic |-> topic, k |-> k,
              length |-> PyNone, info |-> PyNone])
    /\ UNCHANGED <<TRADITION_CONFIG, collections>>

\* an exception leaves the invocation: nothing is returned
Raise(p, type, detail) ==
    /\ pc' = [pc EXCEPT ![p] = "failed"]
    /\ error' = [error EXCEPT ![p] = [type |-> type, detail |-> detail]]

\* retrieve, line 65: the embedding collaborator answers
EncodeOk(p) ==
    /\ pc[p] = "encode"
    /\ calls' = [calls EXCEPT ![p] = Append(@, "encode")]
    /\ theme_embeddings' = [theme_embeddings EXCEPT ![p] = Encode(<<args[p].topic>>)]
    /\ pc' = [pc EXCEPT ![p] = "get_collection"]
    /\ UNCHANGED <<TRADITION_CONFIG, collections, op, args, col, verses, metadatas,
                   sources, system, user, resp, result, error, runVars>>

\* retrieve, line 65: the embedding collaborator raises
EncodeFail(p) ==
    /\ pc[p] = "encode"
    /\ calls' = [calls EXCEPT ![p] = Append(@, "encode")]
    /\ Raise(p, "EmbeddingFailure", args[p].topic)
    /\ UNCHANGED <<TRADITION_CONFIG, collections, op, args, theme_embeddings, col, verses,
                   metadatas, sources, system, user, resp, result, runVars>>

\* retrieve, line 66: the argument self.TRADITION_CONFIG[tradition]["collection"] is
\* evaluated first and raises KeyError for an unknown tradition
LookupFail(p) ==
    /\ pc[p] = "get_collection"
    /\ ~HasKey(TRADITION_CONFIG, args[p].tradition)
    /\ Raise(p, "KeyError", args[p].tradition)
    /\ UNCHANGED <<TRADITION_CONFIG, collections, op, args, calls, theme_embeddings, col,
                   verses, metadatas, sources, system, user, resp, result, runVars>>

\* retrieve, line 66: client.get_collection finds the collection
GetCollectionOk(p) ==
    /\ pc[p] = "get_collection"
    /\ HasKey(TRADITION_CONFIG, args[p].tradition)
    /\ LET name == Lookup(TRADITION_CONFIG, args[p].tradition).collection
       IN  /\ name \in DOMAIN collections
           /\ col' = [col EXCEPT ![p] = name]
    /\ calls' = [calls EXCEPT ![p] = Append(@, "get_collection")]
    /\ pc' = [pc EXCEPT ![p] = "query"]
    /\ UNCHANGED <<TRADITION_CONFIG, collections, op, args, theme_embeddings, verses,
                   metadatas, sources, system, user, resp, result, error, runVars>>

\* retrieve, line 66: client.get_collection raises, the collection does not exist
GetCollectionFail(p) ==
    /\ pc[p] = "get_collection"
    /\ HasKey(TRADITION_CONFIG, args[p].tradition)
    /\ LET name == Lookup(TRADITION_CONFIG, args[p].tradition).collection
       IN  /\ name \notin DOMAIN collections
           /\ Raise(p, "CollectionNotFound", name)
    /\ calls' = [calls EXCEPT ![p] = Append(@, "get_collection")]
    /\ UNCHANGED <<TRADITION_CONFIG, collections, op, args, theme_embeddings, col, verses,
                   metadatas, sources, system, user, resp, result, runVars>>

\* a query that asks for the default number of results whatever k is
QueryResultsDefaultK(p) ==
    IndexQuery(collections[col[p]], theme_embeddings[p], DefaultK)

\* retrieve, lines 67-71: col.query(query_embeddings=theme_embeddings, n_results=k, ...)
QueryResults(p) ==
    IndexQuery(collections[col[p]], theme_embeddings[p], args[p].k)

\* retrieve, lines 67-74: query the collection and return (verses, metadatas);
\* retrieve's caller gets the pair, generate goes on to format it
Query(p) ==
    /\ pc[p] = "query"
    /\ calls' = [calls EXCEPT ![p] = Append(@, "query")]
    /\ LET results == QueryResults(p)
       IN  /\ verses' = [verses EXCEPT ![p] = results.documents[1]]
           /\ metadatas' = [metadatas EXCEPT ![p] = results.metadatas[1]]
           /\ IF op[p] = "retrieve"
              THEN /\ result' = [result EXCEPT ![p] =
                                    <<results.documents[1], results.metadatas[1]>>]
                   /\ pc' = [pc EXCEPT ![p] = "done"]
              ELSE /\ result' = result
                   /\ pc' = [pc EXCEPT ![p] = "format"]
    /\ UNCHANGED <<TRADITION_CONFIG, collections, op, args, theme_embeddings, col,
                   sources, system, user, resp, error, runVars>>

\* zip(verses, metadatas)
Zip(vs, ms) == [i \in 1..Min(Len(vs), Len(ms)) |-> <<vs[i], ms[i]>>]

\* sources built with insert(0, ...) instead of append
FormatAllPrepending(f, pairs) ==
    [i \in 1..Len(pairs) |->
        RefFormatter(f, pairs[Len(pairs) + 1 - i][2]).ref \o "\n" \o pairs[Len(pairs) + 1 - i][1]]

\* generate, lines 95-98: one source per zipped pair, in order
FormatAll(f, pairs) ==
    [i \in 1..Len(pairs) |-> RefFormatter(f, pairs[i][2]).ref \o "\n" \o pairs[i][1]]

\* generate, lines 92-99: every citation formats
FormatSourcesOk(p) ==
    /\ pc[p] = "format"
    /\ LET cfg == Lookup(TRADITION_CONFIG, args[p].tradition)
           pairs == Zip(verses[p], metadatas[p])
       IN  /\ \A i \in 1..Len(pairs) : RefFormatter(cfg.ref_formatter, pairs[i][2]).ok
           /\ sources' = [sources EXCEPT ![p] = FormatAll(cfg.ref_formatter, pairs)]
    /\ pc' = [pc EXCEPT ![p] = "prompt"]
    /\ UNCHANGED <<TRADITION_CONFIG, collections, op, args, calls, theme_embeddings, col,
                   verses, metadatas, system, user, resp, result, error, runVars>>

\* generate, lines 96-97: the formatter raises KeyError at the first passage whose
\* metadata lacks a key it subscripts
FormatSourcesFail(p) ==
    /\ pc[p] = "format"
    /\ LET cfg == Lookup(TRADITION_CONFIG, args[p].tradition)
           pairs == Zip(verses[p], metadatas[p])
           bad == {i \in 1..Len(pairs) : ~RefFormatter(cfg.ref_formatter, pairs[i][2]).ok}
       IN  /\ bad # {}
           /\ LET first == CHOOSE i \in bad : \A j \in bad : i <= j
              IN  Raise(p, "KeyError", RefFormatter(cfg.ref_formatter, pairs[first][2]).key)
    /\ UNCHANGED <<TRADITION_CONFIG, collections, op, args, calls, theme_embeddings, col,
                   verses, metadatas, sources, system, user, resp, result, runVars>>

\* prompt assembly that appends the length clause to the shared config's style
AssemblePromptsWritingConfig(p) ==
    /\ pc[p] = "prompt"
    /\ LET cfg == Lookup(TRADITION_CONFIG, args[p].tradition)
           grown == [cfg EXCEPT !.style = @ \o " Target length: about "
                                           \o FormatValue(args[p].length) \o " words."]
       IN  /\ TRADITION_CONFIG' =
                 [i \in 1..Len(TRADITION_CONFIG) |->
                     IF TRADITION_CONFIG[i].name = args[p].tradition
                     THEN grown ELSE TRADITION_CONFIG[i]]
           /\ system' = [system EXCEPT ![p] =
                            SystemPrompt(args[p].tradition, grown, PyStr(""))]
           /\ user' = [user EXCEPT ![p] =
                          UserPrompt(args[p].topic, args[p].info, cfg,
                                     Join("\n\n", sources[p]))]
    /\ pc' = [pc EXCEPT ![p] = "chat"]
    /\ UNCHANGED <<collections, op, args, calls, theme_embeddings, col,
                   verses, metadatas, sources, resp, result, error, runVars>>

\* generate, lines 99-121: the two prompts
AssemblePrompts(p) ==
    /\ pc[p] = "prompt"
    /\ LET cfg == Lookup(TRADITION_CONFIG, args[p].tradition)
       IN  /\ system' = [system EXCEPT ![p] =
                            SystemPrompt(args[p].tradition, cfg, args[p].length)]
           /\ user' = [user EXCEPT ![p] =
                          UserPrompt(args[p].topic, args[p].info, cfg,
                                     Join("\n\n", sources[p]))]
    /\ pc' = [pc EXCEPT ![p] = "chat"]
    /\ UNCHANGED <<TRADITION_CONFIG, collections, op, args, calls, theme_embeddings, col,
                   verses, metadatas, sources, resp, result, error, runVars>>

\* a narrative that is blanked unless it opens with the Title anchor
NarrativeValidated(r) ==
    IF StartsWith(r["message"]["content"], "Title: ") THEN r["message"]["content"] ELSE ""

\* generate, line 129: parable = resp["message"]["content"]
Narrative(r) == r["message"]["content"]

\* generate, lines 122-130: the backend answers; return its text and the sources
ChatOk(p) ==
    /\ pc[p] = "chat"
    /\ calls' = [calls EXCEPT ![p] = Append(@, "chat")]
    /\ \E text \in BackendTexts :
          /\ resp' = [resp EXCEPT ![p] = ChatResponse(text)]
          /\ result' = [result EXCEPT ![p] = <<Narrative(ChatResponse(text)), sources[p]>>]
    /\ pc' = [pc EXCEPT ![p] = "done"]
    /\ UNCHANGED <<TRADITION_CONFIG, collections, op, args, theme_embeddings, col,
                   verses, metadatas, sources, system, user, error, runVars>>

\* a backend failure answered by calling the backend again
ChatRetry(p) ==
    /\ pc[p] = "chat"
    /\ calls' = [calls EXCEPT ![p] = Append(@, "chat")]
    /\ UNCHANGED <<TRADITION_CONFIG, collections, pc, op, args, theme_embeddings, col,
                   verses, metadatas, sources, system, user, resp, result, error, runVars>>

\* generate, line 122: the backend raises
ChatFail(p) ==
    /\ pc[p] = "chat"
    /\ calls' = [calls EXCEPT ![p] = Append(@, "chat")]
    /\ Raise(p, "GenerationBackendFailure", "")
    /\ UNCHANGED <<TRADITION_CONFIG, collections, op, args, theme_embeddings, col,
                   verses, metadatas, sources, system, user, resp, result, runVars>>

\* one statement of invocation p
Step(p) ==
    \/ EncodeOk(p)
    \/ EncodeFail(p)
    \/ LookupFail(p)
    \/ GetCollectionOk(p)
    \/ GetCollectionFail(p)
    \/ Query(p)
    \/ FormatSourcesOk(p)
    \/ FormatSourcesFail(p)
    \/ AssemblePrompts(p)
    \/ ChatOk(p)
    \/ ChatFail(p)

(************************ a caller of the API ******************************)
Traditions == {"Christianity", "Buddhism", "Islam", "Taoism", "Zoroastrianism"}
Topics == {"patience", "mercy"}
Lengths == {PyInt(DefaultLength), PyStr(""), PyNone}
Infos == {PyNone, PyStr(""), PyStr(" be brief ")}

IdleFrames ==
    /\ pc = [p \in Procs |-> "idle"]
    /\ op = [p \in Procs |-> "none"]
    /\ args = [p \in Procs |-> NoArgs]
    /\ calls = [p \in Procs |-> <<>>]
    /\ theme_embeddings = [p \in Procs |-> <<>>]
    /\ col = [p \in Procs |-> ""]
    /\ verses = [p \in Procs |-> <<>>]
    /\ metadatas = [p \in Procs |-> <<>>]
    /\ sources = [p \in Procs |-> <<>>]
    /\ system = [p \in Procs |-> ""]
    /\ user = [p \in Procs |-> ""]
    /\ resp = [p \in Procs |-> NoResponse]
    /\ result = [p \in Procs |-> NoResult]
    /\ error = [p \in Procs |-> NoError]

NoRun ==
    /\ runPc = "not_running"
    /\ tradition_index = ""
    /\ lastPrint = ""

\* after ParableGPT(): the registry built, the database as it was ingested
Init ==
    /\ TRADITION_CONFIG = InitialConfig
    /\ collections \in Corpora
    /\ IdleFrames
    /\ NoRun

\* one caller, one invocation at a time
Next ==
    \/ \E tradition \in Traditions, topic \in Topics, length \in Lengths, info \in Infos :
          CallGenerate(1, tradition, topic, length, info) /\ UNCHANGED runVars
    \/ \E tradition \in Traditions, topic \in Topics, k \in 1..MaxK :
          CallRetrieve(1, tradition, topic, k) /\ UNCHANGED runVars
    \/ Step(1)

Spec == Init /\ [][Next]_vars

(********************* callers on several threads **************************)
SmallCorpora ==
    {Corpus(DefaultK, {}, "none"), Corpus(DefaultK, {}, "chapter"),
     Corpus(DefaultK, {"quran"}, "none")}

ConcInit ==
    /\ TRADITION_CONFIG = InitialConfig
    /\ collections \in SmallCorpora
    /\ IdleFrames
    /\ NoRun

\* every invocation slot is its own caller; their statements interleave
ConcNext ==
    \E p \in Procs :
        \/ \E tradition \in {"Buddhism", "Zoroastrianism"}, length \in {PyInt(DefaultLength), PyStr("")} :
              CallGenerate(p, tradition, "patience", length, PyNone) /\ UNCHANGED runVars
        \/ \E tradition \in {"Islam"}, k \in {1, DefaultK} :
              CallRetrieve(p, tradition, "mercy", k) /\ UNCHANGED runVars
        \/ Step(p)

ConcSpec == ConcInit /\ [][ConcNext]_vars

(***************************** run() ***************************************)
InputChars == {"q", "Q", "0", "3", "4", "-", " "}
RECURSIVE Lines(_)
\* every line of at most n characters the user may type
Lines(n) ==
    IF n = 0 THEN {""}
    ELSE LET shorter == Lines(n - 1) IN shorter \cup {s \o c : s \in shorter, c \in InputChars}
TraditionLines == Lines(MaxInputLen)
TopicLines == {"patience", " mercy "}
LengthLines == {"", "150", " 40 "}
InfoLines == {"", " be brief "}

Welcome == "Welcome to ParableGPT!\n"
\* line 151
PleaseEnter(d) == "Please enter a number 0-" \o ToString(Len(Keys(d)) - 1) \o ", or 'q'."

\* the range test without its lower bound
ValidIndexNoLowerBound(d, line) ==
    /\ ParseInt(line).ok
    /\ ParseInt(line).val < Len(Keys(d))

\* lines 145-150: int() succeeds and the index is in range
ValidIndex(d, line) ==
    /\ ParseInt(line).ok
    /\ 0 <= ParseInt(line).val
    /\ ParseInt(line).val < Len(Keys(d))

RunInit ==
    /\ TRADITION_CONFIG = InitialConfig
    /\ collections \in SmallCorpora
    /\ IdleFrames
    /\ runPc = "prompt_tradition"
    /\ tradition_index = ""
    /\ lastPrint = Welcome

\* lines 139-144: 'q' typed at the tradition prompt
RunQuit(line) ==
    /\ runPc = "prompt_tradition"
    /\ tradition_index' = Strip(line)
    /\ Lower(Strip(line)) = "q"
    /\ runPc' = "returned"
    /\ UNCHANGED <<TRADITION_CONFIG, collections, procVars, lastPrint>>

\* lines 139-151: an entry that is no index of a tradition: print and ask again
RunReprompt(line) ==
    /\ runPc = "prompt_tradition"
    /\ tradition_index' = Strip(line)
    /\ Lower(Strip(line)) # "q"
    /\ ~ValidIndex(TRADITION_CONFIG, Strip(line))
    /\ lastPrint' = PleaseEnter(TRADITION_CONFIG)
    /\ UNCHANGED <<TRADITION_CONFIG, collections, procVars, runPc>>

\* lines 139-148: an index of a tradition leaves the inner loop
RunSelect(line) ==
    /\ runPc = "prompt_tradition"
    /\ tradition_index' = Strip(line)
    /\ Lower(Strip(line)) # "q"
    /\ ValidIndex(TRADITION_CONFIG, Strip(line))
    /\ runPc' = "read_request"
    /\ UNCHANGED <<TRADITION_CONFIG, collections, procVars, lastPrint>>

\* lines 153-157: read topic, word count and instructions, call generate
RunGenerate(topicLine, lengthLine, infoLine) ==
    /\ runPc = "read_request"
    /\ LET tradition == ListIndex(Keys(TRADITION_CONFIG), ParseInt(tradition_index).val)
       IN  CallGenerate(1, tradition, Strip(topicLine), PyStr(Strip(lengthLine)),
                        PyStr(Strip(infoLine)))
    /\ runPc' = "in_generate"
    /\ UNCHANGED <<tradition_index, lastPrint>>

\* generate's frame is gone once its caller has the returned value
Leave(p) ==
    /\ pc' = [pc EXCEPT ![p] = "idle"]
    /\ op' = [op EXCEPT ![p] = "none"]
    /\ args' = [args EXCEPT ![p] = NoArgs]
    /\ calls' = [calls EXCEPT ![p] = <<>>]
    /\ theme_embeddings' = [theme_embeddings EXCEPT ![p] = <<>>]
    /\ col' = [col EXCEPT ![p] = ""]
    /\ verses' = [verses EXCEPT ![p] = <<>>]
    /\ metadatas' = [metadatas EXCEPT ![p] = <<>>]
    /\ sources' = [sources EXCEPT ![p] = <<>>]
    /\ system' = [system EXCEPT ![p] = ""]
    /\ user' = [user EXCEPT ![p] = ""]
    /\ resp' = [resp EXCEPT ![p] = NoResponse]
    /\ result' = [result EXCEPT ![p] = NoResult]
    /\ error' = [error EXCEPT ![p] = NoError]

\* lines 157-160: generate returned (parable, sources); print the parable and loop
RunPrintParable ==
    /\ runPc = "in_generate"
    /\ pc[1] = "done"
    /\ lastPrint' = result[1][1]
    /\ Leave(1)
    /\ runPc' = "prompt_tradition"
    /\ UNCHANGED <<TRADITION_CONFIG, collections, tradition_index>>

\* line 157: an exception of generate is not caught and leaves run()
RunPropagate ==
    /\ runPc = "in_generate"
    /\ pc[1] = "failed"
    /\ runPc' = "raised"
    /\ UNCHANGED <<TRADITION_CONFIG, collections, procVars, tradition_index, lastPrint>>

RunNext ==
    \/ \E line \in TraditionLines : RunQuit(line)
    \/ \E line \in TraditionLines : RunReprompt(line)
    \/ \E line \in TraditionLines : RunSelect(line)
    \/ \E topicLine \in TopicLines, lengthLine \in LengthLines, infoLine \in InfoLines :
          RunGenerate(topicLine, lengthLine, infoLine)
    \/ runPc = "in_generate" /\ Step(1)
    \/ RunPrintParable
    \/ RunPropagate

RunSpec == RunInit /\ [][RunNext]_vars

(****************************** claims *************************************)
Known(p) == HasKey(InitialConfig, args[p].tradition)
ConfigOf(p) == Lookup(InitialConfig, args[p].tradition)
GenerateDone(p) == op[p] = "generate" /\ pc[p] = "done"
EndsWith(s, suf) == Len(s) >= Len(suf) /\ SubSeq(s, Len(s) - Len(suf) + 1, Len(s)) = suf
AllCalls == <<"encode", "get_collection", "query", "chat">>

\* C1: when generate fails with the unknown-tradition lookup error, for a
\* tradition that is not in the registry, no collaborator has been called.
C1_UnknownTraditionBeforeCollaborators ==
    \A p \in Procs :
        (/\ op[p] = "generate" /\ pc[p] = "failed" /\ ~Known(p)
         /\ error[p] = [type |-> "KeyError", detail |-> args[p].tradition]) =>
            calls[p] = <<>>

\* C2: the sources a successful generate returns follow the index's ranking: the
\* n-th source is built from the n-th nearest passage's metadata and text.
C2_SourcesFollowRetrievalOrder ==
    \A p \in Procs :
        GenerateDone(p) =>
            LET hits == IndexQuery(collections[ConfigOf(p).collection],
                                   <<EncodeVec(args[p].topic)>>, DefaultK)
                texts == hits.documents[1]
                metas == hits.metadatas[1]
            IN  /\ verses[p] = texts
                /\ metadatas[p] = metas
                /\ Len(result[p][2]) = Len(texts)
                /\ \A n \in 1..Len(texts) :
                      result[p][2][n] =
                          FormatterText(ConfigOf(p).ref_formatter, metas[n]) \o "\n" \o texts[n]

\* C2 witness: a generate that returned several sources whose first is not the
\* first stored passage
C2_Witness ==
    \E p \in Procs :
        /\ GenerateDone(p)
        /\ Len(result[p][2]) >= 3
        /\ verses[p][1] # collections[ConfigOf(p).collection][1].text

LengthClause(n) == "about " \o n \o " words (±15%)"
LengthProvided(x) == x.t = "int" \/ (x.t = "str" /\ x.v # "")

\* C4: the system prompt holds the clause "about N words (±15%)" exactly when a
\* target length is provided, and no length text at all when the length is empty.
C4_LengthClauseIffProvided ==
    \A p \in Procs :
        system[p] # "" =>
            /\ LengthProvided(args[p].length) =>
                   /\ Contains(system[p], LengthClause(FormatValue(args[p].length)))
                   /\ Contains(system[p], FormatValue(args[p].length) \o " words")
            /\ ~LengthProvided(args[p].length) =>
                   /\ ~Contains(system[p], "Target length")
                   /\ ~Contains(system[p], " words (")

ConstraintsHeader == "User constraints (follow these carefully):\n"
InfoEmpty(x) == x.t = "None" \/ (x.t = "str" /\ x.v = "")

\* C5: with empty constraints (the empty string or none given) the user prompt is
\* built, the constraints header is followed by an empty line, and neither None
\* nor null appears.
C5_EmptyConstraintsBlock ==
    \A p \in Procs :
        user[p] # "" =>
            /\ Contains(user[p], ConstraintsHeader)
            /\ InfoEmpty(args[p].info) =>
                   /\ Contains(user[p], ConstraintsHeader \o "\n\nRelevant ")
                   /\ ~Contains(user[p], "None")
                   /\ ~Contains(user[p], "null")

\* C5 witness: a user prompt built from a call that gave no constraints
C5_Witness ==
    \E p \in Procs : user[p] # "" /\ args[p].info = PyNone /\ pc[p] = "chat"

ChristianKeys == {"book", "chapter", "start_verse", "end_verse"}

\* C6: for Christianity, metadata that lacks any of book, chapter, start_verse,
\* end_verse makes the invocation fail with the KeyError of a lacking key and no
\* source is produced; complete metadata gives "<book> <chapter>:<start>-<end>".
C6_ChristianityFormatter ==
    \A p \in Procs :
        (op[p] = "generate" /\ args[p].tradition = "Christianity"
         /\ (pc[p] \in {"prompt", "chat", "done"} \/ (pc[p] = "failed" /\ Len(calls[p]) >= 3))) =>
            LET ms == metadatas[p]
                malformed == {i \in 1..Len(ms) : ~(ChristianKeys \subseteq DOMAIN ms[i])}
            IN  /\ malformed # {} =>
                      /\ pc[p] = "failed"
                      /\ error[p].type = "KeyError"
                      /\ error[p].detail \in ChristianKeys
                      /\ \E i \in malformed : error[p].detail \notin DOMAIN ms[i]
                      /\ sources[p] = <<>>
                      /\ result[p] = NoResult
                /\ malformed = {} =>
                      /\ Len(sources[p]) = Len(ms)
                      /\ \A i \in 1..Len(ms) :
                            /\ sources[p][i] =
                                  ms[i].book \o " " \o ToString(ms[i].chapter) \o ":"
                                  \o ToString(ms[i].start_verse) \o "-"
                                  \o ToString(ms[i].end_verse) \o "\n" \o verses[p][i]
                            /\ ms[i] = [book |-> "John", chapter |-> 3,
                                        start_verse |-> 16, end_verse |-> 16]
                                  => StartsWith(sources[p][i], "John 3:16-16\n")

\* C6 witness: a Christianity invocation that failed on metadata without end_verse
C6_Witness ==
    \E p \in Procs :
        /\ op[p] = "generate" /\ args[p].tradition = "Christianity"
        /\ pc[p] = "failed"
        /\ error[p] = [type |-> "KeyError", detail |-> "end_verse"]
        /\ \E i \in 1..Len(metadatas[p]) :
              DOMAIN metadatas[p][i] = ChristianKeys \ {"end_verse"}

CitationPrefix(tradition, m) ==
    CASE tradition = "Christianity" -> m.book \o " "
      [] tradition = "Buddhism" -> "Dhammapada "
      [] tradition = "Islam" -> "Surah "
      [] tradition = "Taoism" -> "Chapter "

\* C7: a successful generate returns the backend's text as it is and one source
\* per retrieved passage, the tradition's citation followed by the passage text;
\* Buddhism with six retrieved passages gives six sources beginning "Dhammapada ".
C7_NarrativeAndSources ==
    \A p \in Procs :
        GenerateDone(p) =>
            /\ result[p][1] = resp[p].message.content
            /\ result[p][1] \in BackendTexts
            /\ Len(result[p][2]) = Len(verses[p])
            /\ Len(verses[p]) = Len(metadatas[p])
            /\ \A i \in 1..Len(verses[p]) :
                  /\ StartsWith(result[p][2][i],
                                CitationPrefix(args[p].tradition, metadatas[p][i]))
                  /\ EndsWith(result[p][2][i], "\n" \o verses[p][i])
            /\ (args[p].tradition = "Buddhism" /\ Len(collections["dhammapada"]) >= 6) =>
                  /\ Len(result[p][2]) = 6
                  /\ \A i \in 1..6 : StartsWith(result[p][2][i], "Dhammapada ")

\* C7 witness: Buddhism, six sources, and a backend text that meets no format
C7_Witness ==
    \E p \in Procs :
        /\ GenerateDone(p)
        /\ args[p].tradition = "Buddhism"
        /\ Len(result[p][2]) = 6
        /\ result[p][1] = "I cannot write that."

\* C8: within an invocation the collaborators are called in the order embedding,
\* index, backend, each at most once, with formatting and prompt assembly between
\* the query and the backend call; a failure at a stage ends the invocation with
\* no later stage run, no further call and nothing returned.
C8_LinearStagesNoRetry ==
    \A p \in Procs :
        /\ IsPrefix(calls[p], AllCalls)
        /\ pc[p] = "encode" => calls[p] = <<>>
        /\ pc[p] = "get_collection" => calls[p] = SubSeq(AllCalls, 1, 1)
        /\ pc[p] = "query" => calls[p] = SubSeq(AllCalls, 1, 2)
        /\ pc[p] = "format" =>
              calls[p] = SubSeq(AllCalls, 1, 3) /\ sources[p] = <<>> /\ system[p] = ""
        /\ pc[p] = "prompt" =>
              calls[p] = SubSeq(AllCalls, 1, 3) /\ system[p] = "" /\ user[p] = ""
        /\ pc[p] = "chat" =>
              calls[p] = SubSeq(AllCalls, 1, 3) /\ system[p] # "" /\ user[p] # ""
        /\ GenerateDone(p) => calls[p] = AllCalls
        /\ pc[p] = "failed" =>
              /\ result[p] = NoResult
              /\ resp[p] = NoResponse
              /\ error[p].type = "EmbeddingFailure" =>
                    calls[p] = SubSeq(AllCalls, 1, 1) /\ col[p] = "" /\ verses[p] = <<>>
              /\ error[p].type = "CollectionNotFound" =>
                    calls[p] = SubSeq(AllCalls, 1, 2) /\ verses[p] = <<>>
              /\ (error[p].type = "KeyError" /\ error[p].detail \in MetaKeys) =>
                    calls[p] = SubSeq(AllCalls, 1, 3) /\ sources[p] = <<>> /\ system[p] = ""
              /\ error[p].type = "GenerationBackendFailure" => calls[p] = AllCalls
              /\ error[p].type \in {"EmbeddingFailure", "CollectionNotFound", "KeyError",
                                    "GenerationBackendFailure"}

\* C8 witness: an invocation that failed at the backend after one call to each
\* collaborator
C8_Witness ==
    \E p \in Procs :
        /\ pc[p] = "failed"
        /\ error[p].type = "GenerationBackendFailure"
        /\ calls[p] = AllCalls

\* what invocation p returns, as far as it has got, with the answers it was given
Outcome(p) == <<pc[p], result[p], error[p], system[p], user[p]>>

\* C9: the registry stays as constructed, one config per tradition, whatever
\* invocations run and interleave, and an invocation's outcome is decided by its
\* own arguments and the collaborators' answers alone.
C9_RegistryReadOnly ==
    /\ TRADITION_CONFIG = InitialConfig
    /\ \A i, j \in 1..Len(TRADITION_CONFIG) :
          TRADITION_CONFIG[i].name = TRADITION_CONFIG[j].name => i = j
    /\ \A p, q \in Procs :
          (op[p] = op[q] /\ args[p] = args[q] /\ pc[p] = pc[q] /\ resp[p] = resp[q]
           /\ error[p].type = error[q].type)
              => Outcome(p) = Outcome(q)
    /\ \A p \in Procs :
          pc[p] \in {"chat", "done"} /\ op[p] = "generate" =>
              system[p] = SystemPrompt(args[p].tradition, ConfigOf(p), args[p].length)

\* C9 witness: one invocation has returned while another, with other arguments,
\* is between its prompt assembly and its backend call
C9_Witness ==
    \E p, q \in Procs :
        /\ p # q
        /\ GenerateDone(p) /\ op[q] = "generate" /\ pc[q] = "chat"
        /\ args[p] # args[q]

\* the entry is a decimal integer in 0..3, a sign and whitespace aside
IndexInRange(line) ==
    /\ ParseInt(line).ok
    /\ ParseInt(line).val \in 0..(Len(InitialConfig) - 1)

\* C10: run() calls generate only with a tradition of the registry; an entry that
\* is no index 0..3 asks again without calling generate; 'q' in any case returns
\* without calling generate, run() returns in no other way, and no invocation made
\* by run() fails on an unknown tradition.
C10_RunCallsKnownTraditions ==
    /\ [](/\ op[1] = "generate" => HasKey(TRADITION_CONFIG, args[1].tradition)
          /\ ~(error[1].type = "KeyError" /\ error[1].detail \notin MetaKeys)
          /\ runPc \in {"read_request", "in_generate", "raised"} =>
                IndexInRange(tradition_index)
          /\ runPc = "in_generate" =>
                args[1].tradition = InitialConfig[ParseInt(tradition_index).val + 1].name
          /\ runPc = "returned" => Lower(tradition_index) = "q" /\ pc[1] = "idle")
    /\ [][(runPc = "prompt_tradition"
           /\ ~IndexInRange(tradition_index') /\ Lower(tradition_index') # "q")
             => (/\ runPc' = "prompt_tradition"
                 /\ lastPrint' = "Please enter a number 0-3, or 'q'."
                 /\ UNCHANGED procVars)]_vars
    /\ [][(runPc = "prompt_tradition" /\ Lower(tradition_index') = "q")
             => (runPc' = "returned" /\ UNCHANGED procVars)]_vars

\* C10 witness: an entry was refused with the request to enter 0-3 or 'q', and
\* then 'Q' ended run()
C10_Witness ==
    /\ runPc = "returned"
    /\ tradition_index = "Q"
    /\ lastPrint = "Please enter a number 0-3, or 'q'."
====
